---- MODULE Spec2Model ----
(***************************************************************************)
(* A model of lib/netext/tracer.go: the Tracer (the recorder of the        *)
(* httptrace hooks of one HTTP request) and the Trail that Done derives    *)
(* from the recorded timestamps.                                           *)
(*                                                                         *)
(* Timestamps are integers (UnixNano in the source); 0 is the source's     *)
(* "unset" value.  The clock of the model counts abstract instants, it     *)
(* starts above 0 and never decreases.  The values of the model stay far   *)
(* from the ends of int64, so time.Duration arithmetic is plain integer    *)
(* arithmetic here.                                                        *)
(***************************************************************************)
EXTENDS Integers, Sequences, FiniteSets, TLC

VARIABLES
    getConn,               \* Tracer.getConn
    connectStart,          \* Tracer.connectStart
    connectDone,           \* Tracer.connectDone
    tlsHandshakeStart,     \* Tracer.tlsHandshakeStart
    tlsHandshakeDone,      \* Tracer.tlsHandshakeDone
    gotConn,               \* Tracer.gotConn
    wroteRequest,          \* Tracer.wroteRequest
    gotFirstResponseByte,  \* Tracer.gotFirstResponseByte
    connReused,            \* Tracer.connReused
    connRemoteAddr,        \* Tracer.connRemoteAddr
    protoErrorsMutex,      \* Tracer.protoErrorsMutex: 0 when free, else the holder
    protoErrors,           \* Tracer.protoErrors
    clock,                 \* what time.Now() returns
    trail,                 \* the Trail returned by the last Done, NoTrail before it
    procs,                 \* the hook invocations that run step by step
    reusedSeen,            \* history: some GotConn reported Reused = true
    doneTwice,             \* history: Done was called again, at a later time
    calls,                 \* history: step-by-step invocations started
    errCalls,              \* history: step-by-step invocations given an error
    csSamples,             \* history: the clock samples of the ConnectStart calls
    samples                \* what the last Trail.Samples call returned

stamps == <<getConn, connectStart, connectDone, tlsHandshakeStart,
            tlsHandshakeDone, gotConn, wroteRequest, gotFirstResponseByte>>

tracer == <<stamps, connReused, connRemoteAddr, protoErrorsMutex, protoErrors>>

history == <<reusedSeen, doneTwice, calls, errCalls, csSamples>>

vars == <<tracer, clock, trail, procs, history, samples>>

(***************************************************************************)
(* Bounds of the model.                                                    *)
(***************************************************************************)
MaxClock == 2

MaxErrors == 1

NumProcs == 2

MaxCalls == 2

T0 == 1

(***************************************************************************)
(* Values.                                                                 *)
(***************************************************************************)
Nil == "nil"

Errs == {"errA", "errB"}

Addrs == {"addr1"}

NoTrail == [StartTime |-> 0, EndTime |-> 0, Duration |-> 0, Blocked |-> 0,
            Connecting |-> 0, TLSHandshaking |-> 0, Sending |-> 0,
            Waiting |-> 0, Receiving |-> 0, ConnReused |-> FALSE,
            ConnRemoteAddr |-> Nil]

(* The hooks whose calls may overlap, and those among them given an error. *)
Hooks == {"ConnectStart", "ConnectDone", "TLSHandshakeDone", "WroteRequest"}

ErrHooks == {"ConnectDone", "TLSHandshakeDone", "WroteRequest"}

(* The instants of the scenarios, as offsets from T0. *)
Offsets == {0, 10, 11, 25, 26, 50, 60}

Instants == {T0 + o : o \in Offsets}

Procs == 1..NumProcs

Idle == [pc |-> "idle", op |-> Nil, now |-> 0, err |-> Nil, slice |-> <<>>]

(***************************************************************************)
(* atomic.CompareAndSwapInt64(&field, 0, new): the value of the field      *)
(* after the call.                                                         *)
(***************************************************************************)
CompareAndSwapInt64(field, old, new) == IF field = old THEN new ELSE field

(* addError's append, as the value of the slice after it. *)
addError(errors, err) == Append(errors, err)

(* The error collection after a hook that was given err. *)
RecordErr(err) == IF err # Nil THEN addError(protoErrors, err) ELSE protoErrors

(* An error-carrying call is explored only while the collection is short. *)
ErrAllowed(err) == err = Nil \/ Len(protoErrors) < MaxErrors

Recording == trail = NoTrail

(***************************************************************************)
(* The state after construction: the zero value of Tracer.                 *)
(***************************************************************************)
Init ==
    /\ getConn = 0 /\ connectStart = 0 /\ connectDone = 0
    /\ tlsHandshakeStart = 0 /\ tlsHandshakeDone = 0 /\ gotConn = 0
    /\ wroteRequest = 0 /\ gotFirstResponseByte = 0
    /\ connReused = FALSE /\ connRemoteAddr = Nil
    /\ protoErrorsMutex = 0 /\ protoErrors = <<>>
    /\ clock = 1
    /\ trail = NoTrail
    /\ procs = [p \in Procs |-> Idle]
    /\ reusedSeen = FALSE /\ doneTwice = FALSE
    /\ calls = 0 /\ errCalls = 0 /\ csSamples = <<>>
    /\ samples = <<>>

(***************************************************************************)
(* Done's derivation of the Trail, one operator per field.                 *)
(***************************************************************************)
(* Blocked measured to the start of the dial instead of to GotConn. *)
BlockedBeforeDial ==
    IF connectStart # 0 /\ getConn # 0 THEN connectStart - getConn ELSE 0

Blocked ==
    IF gotConn # 0 /\ getConn # 0 THEN gotConn - getConn ELSE 0

Connecting ==
    IF connectDone # 0 /\ connectStart # 0 THEN connectDone - connectStart ELSE 0

TLSHandshaking ==
    IF tlsHandshakeDone # 0 /\ tlsHandshakeStart # 0
    THEN tlsHandshakeDone - tlsHandshakeStart
    ELSE 0

(* Sending without the TLS branch. *)
SendingFromConnectDone ==
    IF wroteRequest # 0 THEN wroteRequest - connectDone ELSE 0

Sending ==
    IF wroteRequest # 0
    THEN IF tlsHandshakeDone # 0
         THEN wroteRequest - tlsHandshakeDone
         ELSE wroteRequest - connectDone
    ELSE 0

(* Waiting measured from the connection instead of from the written        *)
(* request.                                                                *)
WaitingFromGotConn ==
    IF wroteRequest # 0 /\ gotFirstResponseByte # 0
    THEN gotFirstResponseByte - gotConn
    ELSE 0

Waiting ==
    IF wroteRequest # 0 /\ gotFirstResponseByte # 0
    THEN gotFirstResponseByte - wroteRequest
    ELSE 0

(* Receiving without the test that the first response byte was seen. *)
ReceivingUnguarded(done) == done - gotFirstResponseByte

Receiving(done) ==
    IF gotFirstResponseByte # 0 THEN done - gotFirstResponseByte ELSE 0

(* Duration with the connection setup counted in. *)
DurationWithSetup(done) ==
    Blocked + Connecting + TLSHandshaking + Sending + Waiting + Receiving(done)

Duration(done) == Sending + Waiting + Receiving(done)

(* StartTime with the sign of the duration lost. *)
StartTimeAdded(done) == done + Duration(done)

StartTime(done) == done - Duration(done)

(* Done giving up its derivation once an error was collected. *)
DoneTrailOnError(done) ==
    IF protoErrors # <<>>
    THEN [NoTrail EXCEPT !.StartTime = done, !.EndTime = done,
                         !.ConnReused = connReused,
                         !.ConnRemoteAddr = connRemoteAddr]
    ELSE [StartTime      |-> StartTime(done),
          EndTime        |-> done,
          Duration       |-> Duration(done),
          Blocked        |-> Blocked,
          Connecting     |-> Connecting,
          TLSHandshaking |-> TLSHandshaking,
          Sending        |-> Sending,
          Waiting        |-> Waiting,
          Receiving      |-> Receiving(done),
          ConnReused     |-> connReused,
          ConnRemoteAddr |-> connRemoteAddr]

DoneTrail(done) ==
    [StartTime      |-> StartTime(done),
     EndTime        |-> done,
     Duration       |-> Duration(done),
     Blocked        |-> Blocked,
     Connecting     |-> Connecting,
     TLSHandshaking |-> TLSHandshaking,
     Sending        |-> Sending,
     Waiting        |-> Waiting,
     Receiving      |-> Receiving(done),
     ConnReused     |-> connReused,
     ConnRemoteAddr |-> connRemoteAddr]

(***************************************************************************)
(* The hooks, each called and run to its return in one step.               *)
(***************************************************************************)
GetConn ==
    /\ Recording
    /\ getConn' = clock
    /\ UNCHANGED <<connectStart, connectDone, tlsHandshakeStart, tlsHandshakeDone,
                   gotConn, wroteRequest, gotFirstResponseByte, connReused,
                   connRemoteAddr, protoErrorsMutex, protoErrors, clock, trail,
                   procs, history, samples>>

ConnectStart ==
    /\ Recording
    /\ connectStart' = CompareAndSwapInt64(connectStart, 0, clock)
    /\ UNCHANGED <<getConn, connectDone, tlsHandshakeStart, tlsHandshakeDone,
                   gotConn, wroteRequest, gotFirstResponseByte, connReused,
                   connRemoteAddr, protoErrorsMutex, protoErrors, clock, trail,
                   procs, history, samples>>

ConnectDone(err) ==
    /\ Recording
    /\ ErrAllowed(err)
    /\ connectDone' = CompareAndSwapInt64(connectDone, 0, clock)
    /\ protoErrors' = RecordErr(err)
    /\ UNCHANGED <<getConn, connectStart, tlsHandshakeStart, tlsHandshakeDone,
                   gotConn, wroteRequest, gotFirstResponseByte, connReused,
                   connRemoteAddr, protoErrorsMutex, clock, trail, procs, history, samples>>

TLSHandshakeStart ==
    /\ Recording
    /\ tlsHandshakeStart' = clock
    /\ UNCHANGED <<getConn, connectStart, connectDone, tlsHandshakeDone,
                   gotConn, wroteRequest, gotFirstResponseByte, connReused,
                   connRemoteAddr, protoErrorsMutex, protoErrors, clock, trail,
                   procs, history, samples>>

TLSHandshakeDone(err) ==
    /\ Recording
    /\ ErrAllowed(err)
    /\ tlsHandshakeDone' = clock
    /\ protoErrors' = RecordErr(err)
    /\ UNCHANGED <<getConn, connectStart, connectDone, tlsHandshakeStart,
                   gotConn, wroteRequest, gotFirstResponseByte, connReused,
                   connRemoteAddr, protoErrorsMutex, clock, trail, procs, history, samples>>

(* GotConn storing its time whatever the field holds. *)
GotConnStore(field, reused, now) == IF reused THEN now ELSE field

(* GotConn leaving the dial's stamps alone. *)
GotConnKeep(field, reused, now) == field

(* GotConn filling the dial's stamps whether or not the connection was     *)
(* reused.                                                                 *)
GotConnAlways(field, reused, now) == CompareAndSwapInt64(field, 0, now)

(* The value GotConn leaves in connectStart or connectDone. *)
GotConnStamp(field, reused, now) ==
    IF reused THEN CompareAndSwapInt64(field, 0, now) ELSE field

GotConn(reused, addr) ==
    /\ Recording
    /\ gotConn' = clock
    /\ connReused' = reused
    /\ connRemoteAddr' = addr
    /\ connectStart' = GotConnStamp(connectStart, reused, clock)
    /\ connectDone' = GotConnStamp(connectDone, reused, clock)
    /\ reusedSeen' = (reusedSeen \/ reused)
    /\ UNCHANGED <<getConn, tlsHandshakeStart, tlsHandshakeDone, wroteRequest,
                   gotFirstResponseByte, protoErrorsMutex, protoErrors, clock,
                   trail, procs, doneTwice, calls, errCalls, csSamples,
                   samples>>

WroteRequest(err) ==
    /\ Recording
    /\ ErrAllowed(err)
    /\ wroteRequest' = CompareAndSwapInt64(wroteRequest, 0, clock)
    /\ protoErrors' = RecordErr(err)
    /\ UNCHANGED <<getConn, connectStart, connectDone, tlsHandshakeStart,
                   tlsHandshakeDone, gotConn, gotFirstResponseByte, connReused,
                   connRemoteAddr, protoErrorsMutex, clock, trail, procs, history, samples>>

GotFirstResponseByte ==
    /\ Recording
    /\ gotFirstResponseByte' = clock
    /\ UNCHANGED <<getConn, connectStart, connectDone, tlsHandshakeStart,
                   tlsHandshakeDone, gotConn, wroteRequest, connReused,
                   connRemoteAddr, protoErrorsMutex, protoErrors, clock, trail,
                   procs, history, samples>>

Done ==
    /\ trail' = DoneTrail(clock)
    /\ doneTwice' = (doneTwice \/ (trail # NoTrail /\ clock > trail.EndTime))
    /\ UNCHANGED <<tracer, clock, procs, reusedSeen, calls, errCalls, csSamples,
                   samples>>

(* Time passes. *)
Tick ==
    /\ clock < MaxClock
    /\ clock' = clock + 1
    /\ UNCHANGED <<tracer, trail, procs, history, samples>>

Next ==
    \/ GetConn
    \/ ConnectStart
    \/ \E err \in Errs \cup {Nil} : ConnectDone(err)
    \/ TLSHandshakeStart
    \/ \E err \in Errs \cup {Nil} : TLSHandshakeDone(err)
    \/ \E reused \in BOOLEAN, addr \in Addrs : GotConn(reused, addr)
    \/ \E err \in Errs \cup {Nil} : WroteRequest(err)
    \/ GotFirstResponseByte
    \/ Done
    \/ Tick

Spec == Init /\ [][Next]_vars

(***************************************************************************)
(* The hooks in the order their comments document, on a clock that moves   *)
(* over the instants of the scenarios.                                     *)
(***************************************************************************)
InitOrdered ==
    /\ getConn = 0 /\ connectStart = 0 /\ connectDone = 0
    /\ tlsHandshakeStart = 0 /\ tlsHandshakeDone = 0 /\ gotConn = 0
    /\ wroteRequest = 0 /\ gotFirstResponseByte = 0
    /\ connReused = FALSE /\ connRemoteAddr = Nil
    /\ protoErrorsMutex = 0 /\ protoErrors = <<>>
    /\ clock = T0
    /\ trail = NoTrail
    /\ procs = [p \in Procs |-> Idle]
    /\ reusedSeen = FALSE /\ doneTwice = FALSE
    /\ calls = 0 /\ errCalls = 0 /\ csSamples = <<>>
    /\ samples = <<>>

(* "If it's called, it will be called before all other hooks." *)
OrdGetConn ==
    /\ getConn = 0 /\ connectStart = 0 /\ connectDone = 0
    /\ tlsHandshakeStart = 0 /\ tlsHandshakeDone = 0 /\ gotConn = 0
    /\ wroteRequest = 0 /\ gotFirstResponseByte = 0
    /\ GetConn

(* "it will be called after GetConn() and before ConnectDone()" *)
OrdConnectStart ==
    /\ getConn # 0 /\ connectDone = 0 /\ gotConn = 0
    /\ ConnectStart

(* "after ConnectStart() and before either TLSHandshakeStart() or GotConn()" *)
OrdConnectDone(err) ==
    /\ connectStart # 0 /\ tlsHandshakeStart = 0 /\ gotConn = 0
    /\ ConnectDone(err)

(* "after ConnectDone() and before TLSHandshakeDone()" *)
OrdTLSHandshakeStart ==
    /\ connectDone # 0 /\ tlsHandshakeStart = 0 /\ tlsHandshakeDone = 0
    /\ gotConn = 0
    /\ TLSHandshakeStart

(* "after TLSHandshakeStart() and before GotConn()" *)
OrdTLSHandshakeDone(err) ==
    /\ tlsHandshakeStart # 0 /\ tlsHandshakeDone = 0 /\ gotConn = 0
    /\ TLSHandshakeDone(err)

(* "the fist hook called for reused connections. For new connections,     *)
(* it's called either after TLSHandshakeDone() or after ConnectDone()"    *)
OrdGotConn(reused, addr) ==
    /\ gotConn = 0
    /\ IF reused
       THEN connectStart = 0 /\ connectDone = 0 /\ tlsHandshakeStart = 0
       ELSE /\ connectDone # 0
            /\ (tlsHandshakeStart = 0 \/ tlsHandshakeDone # 0)
    /\ GotConn(reused, addr)

OrdWroteRequest(err) ==
    /\ gotConn # 0 /\ gotFirstResponseByte = 0
    /\ WroteRequest(err)

OrdGotFirstResponseByte ==
    /\ wroteRequest # 0 /\ gotFirstResponseByte = 0
    /\ GotFirstResponseByte

OrdTick ==
    /\ \E t \in Instants : t > clock /\ clock' = t
    /\ UNCHANGED <<tracer, trail, procs, history, samples>>

NextOrdered ==
    \/ OrdGetConn
    \/ OrdConnectStart
    \/ \E err \in Errs \cup {Nil} : OrdConnectDone(err)
    \/ OrdTLSHandshakeStart
    \/ \E err \in Errs \cup {Nil} : OrdTLSHandshakeDone(err)
    \/ \E reused \in BOOLEAN, addr \in Addrs : OrdGotConn(reused, addr)
    \/ \E err \in Errs \cup {Nil} : OrdWroteRequest(err)
    \/ OrdGotFirstResponseByte
    \/ Done
    \/ OrdTick

SpecOrdered == InitOrdered /\ [][NextOrdered]_vars

(***************************************************************************)
(* The hooks that may be called concurrently, run step by step: a call     *)
(* evaluates now(), then writes its timestamp field, then (given an error) *)
(* runs addError: Lock, the read and the write of the append, and the      *)
(* deferred Unlock.                                                        *)
(***************************************************************************)
AllIdle == \A p \in Procs : procs[p].pc = "idle"

(* now() is evaluated: the argument of the CompareAndSwap or of the store. *)
Call(p, op, err) ==
    /\ Recording
    /\ procs[p].pc = "idle"
    /\ calls < MaxCalls
    /\ err # Nil => op \in ErrHooks
    /\ procs' = [procs EXCEPT ![p] =
                    [pc |-> "stamp", op |-> op, now |-> clock, err |-> err,
                     slice |-> <<>>]]
    /\ calls' = calls + 1
    /\ errCalls' = IF err # Nil THEN errCalls + 1 ELSE errCalls
    /\ csSamples' = IF op = "ConnectStart" THEN Append(csSamples, clock)
                    ELSE csSamples
    /\ UNCHANGED <<tracer, clock, trail, reusedSeen, doneTwice, samples>>

(* Where the call goes after its timestamp is written. *)
AfterStamp(p) ==
    IF procs[p].err # Nil
    THEN [procs EXCEPT ![p].pc = "lock"]
    ELSE [procs EXCEPT ![p] = Idle]

(* The timestamp field is written: a CompareAndSwap, or a plain store in   *)
(* TLSHandshakeDone.                                                       *)
Stamp(p) ==
    /\ procs[p].pc = "stamp"
    /\ connectStart' = IF procs[p].op = "ConnectStart"
                       THEN CompareAndSwapInt64(connectStart, 0, procs[p].now)
                       ELSE connectStart
    /\ connectDone' = IF procs[p].op = "ConnectDone"
                      THEN CompareAndSwapInt64(connectDone, 0, procs[p].now)
                      ELSE connectDone
    /\ tlsHandshakeDone' = IF procs[p].op = "TLSHandshakeDone"
                           THEN procs[p].now
                           ELSE tlsHandshakeDone
    /\ wroteRequest' = IF procs[p].op = "WroteRequest"
                       THEN CompareAndSwapInt64(wroteRequest, 0, procs[p].now)
                       ELSE wroteRequest
    /\ procs' = AfterStamp(p)
    /\ UNCHANGED <<getConn, tlsHandshakeStart, gotConn, gotFirstResponseByte,
                   connReused, connRemoteAddr, protoErrorsMutex, protoErrors,
                   clock, trail, history, samples>>

(* Lock that does not wait. *)
MutexIgnored == TRUE

(* protoErrorsMutex.Lock() returns only when the mutex is free. *)
MutexFree == protoErrorsMutex = 0

Lock(p) ==
    /\ procs[p].pc = "lock"
    /\ MutexFree
    /\ protoErrorsMutex' = p
    /\ procs' = [procs EXCEPT ![p].pc = "read"]
    /\ UNCHANGED <<stamps, connReused, connRemoteAddr, protoErrors, clock,
                   trail, history, samples>>

(* append(t.protoErrors, err) reads the slice ... *)
AppendRead(p) ==
    /\ procs[p].pc = "read"
    /\ procs' = [procs EXCEPT ![p].pc = "write", ![p].slice = protoErrors]
    /\ UNCHANGED <<tracer, clock, trail, history, samples>>

(* ... and t.protoErrors = ... writes the longer one back. *)
AppendWrite(p) ==
    /\ procs[p].pc = "write"
    /\ protoErrors' = addError(procs[p].slice, procs[p].err)
    /\ procs' = [procs EXCEPT ![p].pc = "unlock"]
    /\ UNCHANGED <<stamps, connReused, connRemoteAddr, protoErrorsMutex, clock,
                   trail, history, samples>>

(* addError returning without the deferred Unlock. *)
UnlockForgotten(p) ==
    /\ procs[p].pc = "unlock"
    /\ procs' = [procs EXCEPT ![p] = Idle]
    /\ UNCHANGED <<tracer, clock, trail, history, samples>>

(* The deferred Unlock, and the return of the hook. *)
Unlock(p) ==
    /\ procs[p].pc = "unlock"
    /\ protoErrorsMutex' = 0
    /\ procs' = [procs EXCEPT ![p] = Idle]
    /\ UNCHANGED <<stamps, connReused, connRemoteAddr, protoErrors, clock,
                   trail, history, samples>>

(* Done is called when the request is finished: no hook is running. *)
DoneAtEnd ==
    /\ AllIdle
    /\ Done

NextSteps ==
    \/ \E p \in Procs, op \in Hooks, err \in Errs \cup {Nil} : Call(p, op, err)
    \/ \E p \in Procs : Stamp(p)
    \/ \E p \in Procs : Lock(p)
    \/ \E p \in Procs : AppendRead(p)
    \/ \E p \in Procs : AppendWrite(p)
    \/ \E p \in Procs : Unlock(p)
    \/ DoneAtEnd
    \/ Tick

SpecSteps == Init /\ [][NextSteps]_vars

(***************************************************************************)
(* Scheduling: a goroutine that can take its next step takes it (the Go    *)
(* scheduler runs every runnable goroutine), and a goroutine blocked in    *)
(* Lock gets the mutex if it is freed again and again (sync.Mutex hands    *)
(* the mutex to a waiter that starves).                                    *)
(***************************************************************************)
Fairness ==
    \A p \in Procs :
        /\ WF_vars(Stamp(p))
        /\ SF_vars(Lock(p))
        /\ WF_vars(AppendRead(p))
        /\ WF_vars(AppendWrite(p))
        /\ WF_vars(Unlock(p))

(* The steps of the calls at one reading of the clock: no step of a call   *)
(* reads the clock or a timestamp to decide what it does next, so the      *)
(* passing of time is left out where only the progress of the calls is     *)
(* asked about.                                                            *)
NextLive ==
    \/ \E p \in Procs, op \in Hooks, err \in Errs \cup {Nil} : Call(p, op, err)
    \/ \E p \in Procs : Stamp(p)
    \/ \E p \in Procs : Lock(p)
    \/ \E p \in Procs : AppendRead(p)
    \/ \E p \in Procs : AppendWrite(p)
    \/ \E p \in Procs : Unlock(p)
    \/ DoneAtEnd

SpecStepsFair == Init /\ [][NextLive]_vars /\ Fairness

(***************************************************************************)
(* Trail.Samples: the samples of a Trail, in the order of the source.      *)
(* Metrics are named as the variables of the metrics package.  stats.D is  *)
(* defined outside this file; the value of a duration sample is taken to   *)
(* be the duration itself, as the specification of the samples gives it.   *)
(***************************************************************************)
Returned == trail # NoTrail

TagSets == {[url |-> "u1"], [url |-> "u2"]}

D(d) == d

Sample(metric, time, tags, value) ==
    [Metric |-> metric, Time |-> time, Tags |-> tags, Value |-> value]

(* Samples with TLS handshaking moved next to connecting. *)
SamplesReordered(tr, tags) ==
    << Sample("HTTPReqs", tr.EndTime, tags, 1),
       Sample("HTTPReqDuration", tr.EndTime, tags, D(tr.Duration)),
       Sample("HTTPReqBlocked", tr.EndTime, tags, D(tr.Blocked)),
       Sample("HTTPReqConnecting", tr.EndTime, tags, D(tr.Connecting)),
       Sample("HTTPReqTLSHandshaking", tr.EndTime, tags, D(tr.TLSHandshaking)),
       Sample("HTTPReqSending", tr.EndTime, tags, D(tr.Sending)),
       Sample("HTTPReqWaiting", tr.EndTime, tags, D(tr.Waiting)),
       Sample("HTTPReqReceiving", tr.EndTime, tags, D(tr.Receiving)) >>

Samples(tr, tags) ==
    << Sample("HTTPReqs", tr.EndTime, tags, 1),
       Sample("HTTPReqDuration", tr.EndTime, tags, D(tr.Duration)),
       Sample("HTTPReqBlocked", tr.EndTime, tags, D(tr.Blocked)),
       Sample("HTTPReqConnecting", tr.EndTime, tags, D(tr.Connecting)),
       Sample("HTTPReqSending", tr.EndTime, tags, D(tr.Sending)),
       Sample("HTTPReqWaiting", tr.EndTime, tags, D(tr.Waiting)),
       Sample("HTTPReqReceiving", tr.EndTime, tags, D(tr.Receiving)),
       Sample("HTTPReqTLSHandshaking", tr.EndTime, tags, D(tr.TLSHandshaking)) >>

(* The caller of Done turns the Trail it got into samples. *)
EmitSamples(tags) ==
    /\ Returned
    /\ samples' = Samples(trail, tags)
    /\ UNCHANGED <<tracer, clock, trail, procs, history>>

(* Done, while the Trail has not been turned into samples. *)
DoneBeforeSamples ==
    /\ samples = <<>>
    /\ Done

NextSamples ==
    \/ OrdGetConn
    \/ OrdConnectStart
    \/ \E err \in Errs \cup {Nil} : OrdConnectDone(err)
    \/ OrdTLSHandshakeStart
    \/ \E err \in Errs \cup {Nil} : OrdTLSHandshakeDone(err)
    \/ \E reused \in BOOLEAN, addr \in Addrs : OrdGotConn(reused, addr)
    \/ \E err \in Errs \cup {Nil} : OrdWroteRequest(err)
    \/ OrdGotFirstResponseByte
    \/ DoneBeforeSamples
    \/ \E tags \in TagSets : EmitSamples(tags)
    \/ OrdTick

SpecSamples == InitOrdered /\ [][NextSamples]_vars

(***************************************************************************)
(* The claims.                                                             *)
(***************************************************************************)
Min(a, b) == IF a <= b THEN a ELSE b

(* C1: in the Trail of Done, a phase whose input timestamps are not all   *)
(* set is 0: blocked needs gotConn and getConn, connecting needs           *)
(* connectStart and connectDone, tlsHandshaking needs both TLS stamps,     *)
(* sending needs wroteRequest and its base (tlsHandshakeDone if set, else  *)
(* connectDone), waiting needs wroteRequest and gotFirstResponseByte,      *)
(* receiving needs gotFirstResponseByte.                                   *)
C1_UnsetInputsGiveZero ==
    Returned =>
        /\ (gotConn = 0 \/ getConn = 0) => trail.Blocked = 0
        /\ (connectStart = 0 \/ connectDone = 0) => trail.Connecting = 0
        /\ (tlsHandshakeStart = 0 \/ tlsHandshakeDone = 0)
               => trail.TLSHandshaking = 0
        /\ (wroteRequest = 0 \/ (tlsHandshakeDone = 0 /\ connectDone = 0))
               => trail.Sending = 0
        /\ (wroteRequest = 0 \/ gotFirstResponseByte = 0) => trail.Waiting = 0
        /\ gotFirstResponseByte = 0 => trail.Receiving = 0

(* C2: if some GotConn reported reused = true, the Trail of Done has       *)
(* connecting = 0, whatever other hooks were called before or after it.    *)
C2_ReusedMeansNoConnecting ==
    (Returned /\ reusedSeen) => trail.Connecting = 0

(* C3: in every Trail of Done, after any sequence of hooks on a            *)
(* non-decreasing clock, the six phase durations are all >= 0.             *)
C3_PhasesNonNegative ==
    Returned =>
        /\ trail.Blocked >= 0
        /\ trail.Connecting >= 0
        /\ trail.TLSHandshaking >= 0
        /\ trail.Sending >= 0
        /\ trail.Waiting >= 0
        /\ trail.Receiving >= 0

(* C4: when ConnectStart was called twice, overlapping or not, and both    *)
(* calls have returned, connectStart holds the earlier of the two clock    *)
(* samples, and that is what the connecting phase is measured from.        *)
C4_EarlierConnectStartWins ==
    (/\ Len(csSamples) = 2
     /\ \A p \in Procs : procs[p].op # "ConnectStart")
        => /\ connectStart = Min(csSamples[1], csSamples[2])
           /\ (Returned /\ connectDone # 0)
                  => trail.Connecting = connectDone - Min(csSamples[1], csSamples[2])

(* C5: connectStart, connectDone and wroteRequest are set at most once:    *)
(* once one of them is non-zero no step changes it.                        *)
C5_SetAtMostOnce ==
    [][/\ connectStart # 0 => connectStart' = connectStart
       /\ connectDone # 0 => connectDone' = connectDone
       /\ wroteRequest # 0 => wroteRequest' = wroteRequest]_vars

(* A GotConn that reported reuse ran after the dial's stamps were set, and *)
(* they kept their earlier values.                                         *)
C5_Witness ==
    /\ connReused
    /\ connectStart # 0 /\ connectStart < gotConn
    /\ connectDone # 0 /\ connectDone < gotConn
    /\ wroteRequest # 0 /\ wroteRequest < clock

(* C6: under every interleaving of the step-by-step hooks, the length of   *)
(* protoErrors is the number of error-carrying invocations that have done  *)
(* their append (those that returned, and the one about to unlock), an     *)
(* invocation with a nil error adds nothing, and no step removes or        *)
(* reorders an entry: a step leaves protoErrors alone or appends the error *)
(* of one invocation to it.                                                *)
C6_NoLostAppend ==
    /\ [](Len(protoErrors) =
            errCalls
              - Cardinality({p \in Procs :
                    procs[p].err # Nil /\ procs[p].pc # "unlock"}))
    /\ [][\/ protoErrors' = protoErrors
          \/ \E p \in Procs :
                /\ procs[p].err # Nil
                /\ protoErrors' = Append(protoErrors, procs[p].err)]_vars

(* Two ConnectDone calls, both given an error, meet at the mutex after     *)
(* both did their CompareAndSwap, which only one of them won.              *)
C6_Witness ==
    \E p, q \in Procs :
        /\ procs[p].op = "ConnectDone" /\ procs[p].pc = "lock"
        /\ procs[q].op = "ConnectDone" /\ procs[q].pc = "write"
        /\ procs[p].now # procs[q].now

(* C7: in every Trail of Done, duration = sending + waiting + receiving;   *)
(* blocked, connecting and tlsHandshaking are no part of it.               *)
C7_DurationIsSum ==
    Returned => trail.Duration = trail.Sending + trail.Waiting + trail.Receiving

(* A Trail whose setup phases and whose duration are both non-zero. *)
C7_Witness ==
    /\ Returned
    /\ trail.Blocked > 0
    /\ trail.Connecting > 0
    /\ trail.Duration > 0

(* C8: in every Trail of Done, startTime = endTime - duration, and endTime *)
(* is the clock at the call of Done.                                       *)
C8_StartIsEndMinusDuration ==
    /\ [](Returned => trail.StartTime = trail.EndTime - trail.Duration)
    /\ [][trail' # trail => trail'.EndTime = clock]_vars

(* A Trail with a duration, so that startTime and endTime differ. *)
C8_Witness ==
    /\ Returned
    /\ trail.Duration > 0
    /\ trail.StartTime < trail.EndTime

(* Scenario A: a plaintext fresh connection, Done at T0 + 60. *)
ScenarioA ==
    /\ Returned
    /\ getConn = T0
    /\ connectStart = T0
    /\ connectDone = T0 + 10
    /\ tlsHandshakeStart = 0 /\ tlsHandshakeDone = 0
    /\ gotConn = T0 + 10 /\ ~connReused
    /\ wroteRequest = T0 + 11
    /\ gotFirstResponseByte = T0 + 50
    /\ trail.EndTime = T0 + 60

(* C9, as claimed: in scenario A the Trail is blocked = 0, connecting =    *)
(* 10, tlsHandshaking = 0, sending = 1, waiting = 39, receiving = 10,      *)
(* duration = 50.                                                          *)
C9_ScenarioA_Claimed ==
    ScenarioA =>
        /\ trail.Blocked = 0
        /\ trail.Connecting = 10
        /\ trail.TLSHandshaking = 0
        /\ trail.Sending = 1
        /\ trail.Waiting = 39
        /\ trail.Receiving = 10
        /\ trail.Duration = 50

(* C9, amended: in scenario A the Trail is blocked = 10 (gotConn minus     *)
(* getConn), connecting = 10, tlsHandshaking = 0, sending = 1, waiting =   *)
(* 39, receiving = 10, duration = 50.                                      *)
C9_ScenarioA ==
    ScenarioA =>
        /\ trail.Blocked = 10
        /\ trail.Connecting = 10
        /\ trail.TLSHandshaking = 0
        /\ trail.Sending = 1
        /\ trail.Waiting = 39
        /\ trail.Receiving = 10
        /\ trail.Duration = 50

C9_Witness == ScenarioA /\ protoErrors = <<>>

(* C10, as claimed: if neither wroteRequest nor gotFirstResponseByte was   *)
(* recorded, Done returns duration = 0, startTime = endTime and all six    *)
(* phase durations 0.                                                      *)
C10_NothingSent_Claimed ==
    (Returned /\ wroteRequest = 0 /\ gotFirstResponseByte = 0) =>
        /\ trail.Duration = 0
        /\ trail.StartTime = trail.EndTime
        /\ trail.Blocked = 0
        /\ trail.Connecting = 0
        /\ trail.TLSHandshaking = 0
        /\ trail.Sending = 0
        /\ trail.Waiting = 0
        /\ trail.Receiving = 0

(* C10, amended: if neither wroteRequest nor gotFirstResponseByte was      *)
(* recorded, Done returns duration = 0, startTime = endTime and sending,   *)
(* waiting and receiving 0; blocked, connecting and tlsHandshaking are     *)
(* still what their own timestamps give.                                   *)
C10_NothingSent ==
    (Returned /\ wroteRequest = 0 /\ gotFirstResponseByte = 0) =>
        /\ trail.Duration = 0
        /\ trail.StartTime = trail.EndTime
        /\ trail.Sending = 0
        /\ trail.Waiting = 0
        /\ trail.Receiving = 0
        /\ trail.Blocked = Blocked
        /\ trail.Connecting = Connecting
        /\ trail.TLSHandshaking = TLSHandshaking

(* Scenario D: GetConn and GotConn fired, ConnectDone reported an error,   *)
(* nothing was written; the Trail still has a blocked time.                *)
C10_Witness ==
    /\ Returned
    /\ wroteRequest = 0 /\ gotFirstResponseByte = 0
    /\ getConn # 0 /\ gotConn # 0 /\ connectDone # 0
    /\ Len(protoErrors) = 1
    /\ trail.Blocked > 0


(* C11: the error collection has no part in the derivation: across a step  *)
(* that leaves the eight timestamps, the reuse flag, the remote address    *)
(* and the clock as they are (so it can only have added an error), the     *)
(* Trail that Done derives is the same before and after; Done is enabled   *)
(* in every reachable state; and a Trail that Done returned with errors    *)
(* collected is the one the timestamps alone give.                         *)
C11_ErrorsDoNotAlterTrail ==
    /\ [](ENABLED Done)
    /\ [](Returned =>
            /\ trail.Blocked = Blocked
            /\ trail.Connecting = Connecting
            /\ trail.TLSHandshaking = TLSHandshaking
            /\ trail.Sending = Sending
            /\ trail.Waiting = Waiting)
    /\ [][(/\ stamps' = stamps
           /\ connReused' = connReused
           /\ connRemoteAddr' = connRemoteAddr
           /\ clock' = clock)
              => DoneTrail(clock)' = DoneTrail(clock)]_vars

(* Done returned a Trail with a duration and a blocked time although an    *)
(* error had been collected.                                               *)
C11_Witness ==
    /\ Returned
    /\ protoErrors # <<>>
    /\ trail.Duration > 0
    /\ trail.Blocked > 0


(* C12: Samples(tags) of a Trail is eight samples in the order request     *)
(* count, request duration, blocked, connecting, sending, waiting,         *)
(* receiving, TLS handshaking; every sample has the Trail's EndTime as its *)
(* Time and the tags it was given; the value of the request count is 1     *)
(* and every other value is that of the Trail's field of that name.        *)
C12_SamplesOfTrail ==
    samples # <<>> =>
        /\ Len(samples) = 8
        /\ [i \in 1..8 |-> samples[i].Metric] =
              << "HTTPReqs", "HTTPReqDuration", "HTTPReqBlocked",
                 "HTTPReqConnecting", "HTTPReqSending", "HTTPReqWaiting",
                 "HTTPReqReceiving", "HTTPReqTLSHandshaking" >>
        /\ \A i \in 1..8 : samples[i].Time = trail.EndTime
        /\ \E tags \in TagSets : \A i \in 1..8 : samples[i].Tags = tags
        /\ [i \in 1..8 |-> samples[i].Value] =
              << 1, D(trail.Duration), D(trail.Blocked), D(trail.Connecting),
                 D(trail.Sending), D(trail.Waiting), D(trail.Receiving),
                 D(trail.TLSHandshaking) >>

(* Samples of a Trail whose eight values are all different from 0 and      *)
(* whose sending, waiting and TLS handshaking differ from each other.      *)
C12_Witness ==
    /\ samples # <<>>
    /\ \A i \in 1..8 : samples[i].Value > 0
    /\ samples[5].Value # samples[8].Value
    /\ samples[5].Value # samples[6].Value
    /\ samples[6].Value # samples[8].Value


C14_ReusedStampsDial ==
    /\ [][(gotConn' # gotConn /\ connReused' /\ connectStart = 0 /\ connectDone = 0)
             => (/\ gotConn' = clock
                 /\ connectStart' = gotConn'
                 /\ connectDone' = gotConn')]_vars
    /\ [](connReused => (connectStart = gotConn /\ connectDone = gotConn))
    /\ []((Returned /\ connReused) =>
            /\ trail.Connecting = 0
            /\ (wroteRequest # 0 /\ tlsHandshakeDone = 0)
                  => trail.Sending = wroteRequest - gotConn
            /\ getConn = gotConn => trail.Blocked = 0)

(* Scenario C: GetConn and GotConn(reused) at the same instant, the        *)
(* request written later.                                                  *)
C14_Witness ==
    /\ Returned
    /\ connReused
    /\ getConn = T0 /\ gotConn = T0
    /\ wroteRequest = T0 + 10
    /\ trail.Sending = 10


(* C15: under fair scheduling every started invocation of a hook returns,  *)
(* however many run at once; the mutex is the only place a call waits, it  *)
(* is held exactly while one call is between its Lock and its Unlock, and  *)
(* whenever a call waits at Lock the holder can take a step.               *)
C15_EveryCallReturns ==
    /\ \A p \in Procs : (procs[p].pc # "idle") ~> (procs[p].pc = "idle")
    /\ [](\A p \in Procs :
            (protoErrorsMutex = p) <=> (procs[p].pc \in {"read", "write", "unlock"}))
    /\ [](\A p \in Procs :
            procs[p].pc # "idle" =>
               \/ ENABLED Stamp(p) \/ ENABLED Lock(p) \/ ENABLED AppendRead(p)
               \/ ENABLED AppendWrite(p) \/ ENABLED Unlock(p)
               \/ \E q \in Procs \ {p} :
                     /\ procs[p].pc = "lock"
                     /\ protoErrorsMutex = q
                     /\ (ENABLED AppendRead(q) \/ ENABLED AppendWrite(q)
                           \/ ENABLED Unlock(q)))

(* A call waits at Lock while another call holds the mutex. *)
C15_Witness ==
    \E p, q \in Procs :
        /\ p # q
        /\ procs[p].pc = "lock"
        /\ protoErrorsMutex = q
        /\ procs[q].pc = "read"


(* The fields of the Tracer that a step changes. *)
ChangedFields ==
    {f \in {"getConn", "connectStart", "connectDone", "tlsHandshakeStart",
            "tlsHandshakeDone", "gotConn", "wroteRequest",
            "gotFirstResponseByte", "connReused", "connRemoteAddr",
            "protoErrorsMutex", "protoErrors"} :
        CASE f = "getConn" -> getConn' # getConn
          [] f = "connectStart" -> connectStart' # connectStart
          [] f = "connectDone" -> connectDone' # connectDone
          [] f = "tlsHandshakeStart" -> tlsHandshakeStart' # tlsHandshakeStart
          [] f = "tlsHandshakeDone" -> tlsHandshakeDone' # tlsHandshakeDone
          [] f = "gotConn" -> gotConn' # gotConn
          [] f = "wroteRequest" -> wroteRequest' # wroteRequest
          [] f = "gotFirstResponseByte" -> gotFirstResponseByte' # gotFirstResponseByte
          [] f = "connReused" -> connReused' # connReused
          [] f = "connRemoteAddr" -> connRemoteAddr' # connRemoteAddr
          [] f = "protoErrorsMutex" -> protoErrorsMutex' # protoErrorsMutex
          [] f = "protoErrors" -> protoErrors' # protoErrors}

(* C16: every step of a hook changes only that hook's part of the Tracer:  *)
(* one of getConn, tlsHandshakeStart, gotFirstResponseByte, connectStart   *)
(* alone; or one of connectDone, tlsHandshakeDone, wroteRequest, with or   *)
(* without an error appended; or, for GotConn, gotConn, connReused and     *)
(* connRemoteAddr, and connectStart and connectDone only when it reported  *)
(* reuse.  No hook changes the Trail that Done returned.                   *)
C16_HooksChangeOwnFields ==
    [][/\ \/ ChangedFields = {}
          \/ ChangedFields \in {{"getConn"}, {"tlsHandshakeStart"},
                                {"gotFirstResponseByte"}, {"connectStart"}}
          \/ ChangedFields \in {{"connectDone"}, {"tlsHandshakeDone"},
                                {"wroteRequest"}, {"protoErrors"},
                                {"connectDone", "protoErrors"},
                                {"tlsHandshakeDone", "protoErrors"},
                                {"wroteRequest", "protoErrors"}}
          \/ /\ ChangedFields \cap {"gotConn", "connReused", "connRemoteAddr"} # {}
             /\ ChangedFields \subseteq {"gotConn", "connReused", "connRemoteAddr",
                                         "connectStart", "connectDone"}
             /\ ~connReused' =>
                   (connectStart' = connectStart /\ connectDone' = connectDone)
       /\ ChangedFields # {} => trail' = trail]_vars

(* GotConn reported a fresh connection and no dial was recorded: the       *)
(* dial's stamps are still unset; an error was appended by another hook.   *)
C16_Witness ==
    /\ gotConn # 0 /\ connRemoteAddr # Nil
    /\ ~connReused /\ ~reusedSeen
    /\ connectStart = 0 /\ connectDone = 0
    /\ tlsHandshakeDone # 0 /\ protoErrors # <<>>


(* What C17 says of every Done, and of a Done called on a Tracer that Done *)
(* had returned from with no hook in between: the Tracer is not changed,   *)
(* and the two Trails agree on blocked, connecting, tlsHandshaking,        *)
(* sending, waiting, the reuse flag and the remote address.                *)
RepeatedDoneKeeps ==
    /\ UNCHANGED tracer
    /\ Returned =>
          /\ trail'.Blocked = trail.Blocked
          /\ trail'.Connecting = trail.Connecting
          /\ trail'.TLSHandshaking = trail.TLSHandshaking
          /\ trail'.Sending = trail.Sending
          /\ trail'.Waiting = trail.Waiting
          /\ trail'.ConnReused = trail.ConnReused
          /\ trail'.ConnRemoteAddr = trail.ConnRemoteAddr

Elapsed == trail'.EndTime - trail.EndTime

(* C17, as claimed: a repeated Done returns a Trail that differs from the  *)
(* first only in endTime and, when gotFirstResponseByte is set, in         *)
(* receiving and duration, by the clock difference of the two calls.       *)
C17_RepeatedDone_Claimed ==
    [][trail' # trail =>
          /\ RepeatedDoneKeeps
          /\ Returned =>
                /\ trail'.StartTime = trail.StartTime
                /\ IF gotFirstResponseByte # 0
                   THEN /\ trail'.Receiving - trail.Receiving = Elapsed
                        /\ trail'.Duration - trail.Duration = Elapsed
                   ELSE /\ trail'.Receiving = trail.Receiving
                        /\ trail'.Duration = trail.Duration]_vars

(* C17, amended: a repeated Done returns a Trail that differs from the     *)
(* first only in endTime and, by the clock difference of the two calls,    *)
(* in receiving and duration when gotFirstResponseByte is set, and in      *)
(* startTime when it is not.                                               *)
C17_RepeatedDone ==
    [][trail' # trail =>
          /\ RepeatedDoneKeeps
          /\ Returned =>
                IF gotFirstResponseByte # 0
                THEN /\ trail'.Receiving - trail.Receiving = Elapsed
                     /\ trail'.Duration - trail.Duration = Elapsed
                     /\ trail'.StartTime = trail.StartTime
                ELSE /\ trail'.Receiving = trail.Receiving
                     /\ trail'.Duration = trail.Duration
                     /\ trail'.StartTime - trail.StartTime = Elapsed]_vars

(* Done was called a second time, later than the first, with the first     *)
(* response byte seen: receiving and duration have grown.                  *)
C17_Witness ==
    /\ doneTwice
    /\ wroteRequest # 0
    /\ gotFirstResponseByte # 0
    /\ trail.EndTime > gotFirstResponseByte
    /\ trail.Receiving > 0
    /\ trail.Duration > 0


(* The timestamp sending is measured from. *)
SendingBase == IF tlsHandshakeDone # 0 THEN tlsHandshakeDone ELSE connectDone

(* C18: when wroteRequest, gotFirstResponseByte and the base of sending    *)
(* (tlsHandshakeDone if set, else connectDone) are all set, the Trail has  *)
(* duration = endTime - base and startTime = base, whatever wroteRequest   *)
(* and gotFirstResponseByte are.                                           *)
C18_DurationTelescopes ==
    (/\ Returned
     /\ wroteRequest # 0
     /\ gotFirstResponseByte # 0
     /\ SendingBase # 0)
        => /\ trail.Duration = trail.EndTime - SendingBase
           /\ trail.StartTime = SendingBase

(* The three measured phases are all set, with the request written after   *)
(* its base and before the first response byte.                            *)
C18_Witness ==
    /\ Returned
    /\ SendingBase # 0
    /\ wroteRequest # 0 /\ gotFirstResponseByte # 0
    /\ gotConn # 0
    /\ gotFirstResponseByte > wroteRequest
    /\ trail.EndTime > SendingBase

(* C19: for a fresh connection whose hooks fire in the documented order on *)
(* a non-decreasing clock, once GotConn has fired the Trail has blocked    *)
(* >= connecting + tlsHandshaking.                                         *)
C19_BlockedCoversSetup ==
    (Returned /\ gotConn # 0 /\ ~connReused)
        => trail.Blocked >= trail.Connecting + trail.TLSHandshaking

(* A fresh TLS connection whose dial and handshake both took time, with    *)
(* time between them.                                                      *)
C19_Witness ==
    /\ Returned
    /\ gotConn # 0 /\ ~connReused
    /\ trail.Connecting > 0
    /\ trail.TLSHandshaking > 0
    /\ trail.Blocked > trail.Connecting + trail.TLSHandshaking

====
